---- MODULE Spec2Model ----
(***************************************************************************)
(* HeadMotionController (src/src/motion/HeadMotionController.ts): the      *)
(* pose-to-direction controller of NeckSnake, as a state machine.          *)
(*                                                                         *)
(* Numbers.  The source computes in IEEE doubles; the model computes in    *)
(* fixed point.  Lengths (image coordinates, offsets, shoulder widths,     *)
(* smoothed deviations, thresholds) are integers in units of 1e-5 of the   *)
(* normalised image size; confidences are integers in thousandths; times   *)
(* are integers in milliseconds.  A product with a decimal factor is       *)
(* rounded to the nearest unit (RoundDiv).                                 *)
(*                                                                         *)
(* Scheduling.  The browser runs the callbacks registered with             *)
(* requestAnimationFrame back to back once per animation frame, in         *)
(* registration order; a callback registered during a frame runs in the    *)
(* next one.  API calls and promise resolutions run between frames.        *)
(***************************************************************************)
EXTENDS Integers, Sequences, FiniteSets, TLC

VARIABLES
    hmc,        \* the HeadMotionController object: its private fields
    starts,     \* start() calls in flight: how many are suspended at each await
    cal,        \* the calibrate() call in flight: its locals and its position
    rafQueue,   \* callbacks registered with requestAnimationFrame for the next frame
    dueQueue,   \* callbacks of the frame being run, not yet called
    now,        \* performance.now(), in ms
    callsLeft,  \* API calls the environment may still make (a bound of the model)
    framesLeft, \* animation frames the environment may still run (a bound of the model)
    step,       \* what the last step did (its operation, input, branch, signal, event)
    prevEvent,  \* the last event emitted since the emission state was last reset
    stopped,    \* whether stop() has returned and start() was not called since
    handles,    \* the unregistration handles not yet called: the listener of each
    game,       \* the SnakeGame object: its private fields, and the window's intervals
    applied     \* the direction the last game tick applied since the last reset()

vars ==
    <<hmc, starts, cal, rafQueue, dueQueue, now, callsLeft, framesLeft, step, prevEvent,
      stopped, handles, game, applied>>

---------------------------------------------------------------------------
(* Bounds of the model. *)

MaxCalls == 3
MaxFrames == 11

---------------------------------------------------------------------------
(* Program constants. *)

\* calibrate(): sample cap, time budget (ms), minimum number of samples.
MaxSamples == 12
CalibrationBudgetMs == 1800
MinSamples == 6
\* noise floor of the shoulder width: 1e-4, in units of 1e-5.
MinShoulderWidth == 10
\* loop(): fps window (ms).
FpsWindowMs == 1000
\* loop(): confidence of a 1-frame confirmation, 0.72 in thousandths.
HighConfidence == 720
\* loop(): minimum re-emit gaps (ms).
SameDirectionGapMs == 220
NewDirectionGapMs == 90
\* options.sensitivityScale, default 1, in tenths; its floor 0.4 in tenths.
sensitivityScale == 10
MinSensitivity == 4

---------------------------------------------------------------------------
(* Arithmetic helpers. *)

Abs(x) == IF x < 0 THEN -x ELSE x

Max(a, b) == IF a >= b THEN a ELSE b

Min(a, b) == IF a <= b THEN a ELSE b

\* x / d rounded to the nearest integer, halves away from zero (d > 0).
RoundDiv(x, d) ==
    IF x >= 0 THEN (2 * x + d) \div (2 * d) ELSE -((2 * (-x) + d) \div (2 * d))

RECURSIVE SqrtSearch(_, _, _)
SqrtSearch(n, lo, hi) ==
    IF lo >= hi THEN lo
    ELSE LET mid == (lo + hi + 1) \div 2
         IN  IF mid * mid <= n THEN SqrtSearch(n, mid, hi)
             ELSE SqrtSearch(n, lo, mid - 1)

\* Math.hypot on fixed-point lengths: the integer part of the root.
Hypot(a, b) == SqrtSearch(a * a + b * b, 0, Abs(a) + Abs(b))

\* clamp01, on thousandths.
clamp01(value) == Max(0, Min(1000, value))

RECURSIVE SumSeq(_)
SumSeq(values) ==
    IF values = <<>> THEN 0 ELSE Head(values) + SumSeq(Tail(values))

\* A mean that divides by the largest number of samples.
averageOfFull(values) == RoundDiv(SumSeq(values), MaxSamples)

\* average: the sum over max(length, 1).
average(values) == RoundDiv(SumSeq(values), Max(Len(values), 1))

---------------------------------------------------------------------------
(* Values. *)

\* An absent object (null, undefined) is the empty sequence, a present one <<v>>.
Null == <<>>

Some(v) == <<v>>

\* HeadDirection, and "null" for a direction field holding null.
HeadDirection == {"up", "down", "left", "right"}

NoDirection == "null"

Point(px, py) == [x |-> px, y |-> py]

\* One result of poseLandmarker.detectForVideo: whether landmarks[0] exists,
\* and its entries 0 (nose), 11 (left shoulder), 12 (right shoulder).
Landmarks(n, l, r) == [person |-> TRUE, nose |-> n, leftShoulder |-> l, rightShoulder |-> r]

NoPerson == [person |-> FALSE, nose |-> Null, leftShoulder |-> Null, rightShoulder |-> Null]

\* Detector results the model draws from.  Shoulders level at y = 0.5, 0.2 apart,
\* or tilted (a 3-4-5 triangle, 0.2 apart as well), or nearly coincident.
LevelLeft == Some(Point(60000, 50000))

LevelRight == Some(Point(40000, 50000))

NeutralPose == Landmarks(Some(Point(50000, 30000)), LevelLeft, LevelRight)

SlouchPose ==
    Landmarks(Some(Point(50400, 30600)), Some(Point(58000, 56000)), Some(Point(42000, 44000)))

RightLowPose == Landmarks(Some(Point(47600, 30000)), LevelLeft, LevelRight)

RightMidPose == Landmarks(Some(Point(46000, 30000)), LevelLeft, LevelRight)

RightHighPose == Landmarks(Some(Point(42000, 30000)), LevelLeft, LevelRight)

DownPose == Landmarks(Some(Point(50000, 38000)), LevelLeft, LevelRight)

NoNosePose == Landmarks(Null, LevelLeft, LevelRight)

NoShoulderPose == Landmarks(Some(Point(50000, 30000)), LevelLeft, Null)

FlatPose ==
    Landmarks(Some(Point(50000, 30000)), Some(Point(50004, 50000)), Some(Point(50000, 50003)))

---------------------------------------------------------------------------
(* The controller's fields after construction. *)

IdleSnapshot ==
    [tracking |-> FALSE, calibrated |-> FALSE, fps |-> 0, debug |-> "Idle",
     lastDirection |-> NoDirection]

InitController ==
    [mirrorHorizontal |-> TRUE,
     listeners |-> <<>>,
     stream |-> FALSE,
     video |-> FALSE,
     poseLandmarker |-> FALSE,
     rafId |-> FALSE,
     running |-> FALSE,
     baseline |-> Null,
     frameCount |-> 0,
     fpsTickStart |-> 0,
     fps |-> 0,
     lastEmittedDirection |-> NoDirection,
     lastEmitAt |-> 0,
     candidateDirection |-> NoDirection,
     candidateFrameCount |-> 0,
     candidateConfidence |-> 0,
     smoothedDx |-> 0,
     smoothedDy |-> 0,
     snapshot |-> IdleSnapshot]

\* getSnapshot(): a copy of the snapshot.
getSnapshot(h) == h.snapshot

---------------------------------------------------------------------------
(* captureBaselineSample and resolveDirection. *)

ShoulderWidthOf(lm) ==
    Hypot(lm.leftShoulder[1].x - lm.rightShoulder[1].x,
          lm.leftShoulder[1].y - lm.rightShoulder[1].y)

\* (a + b) / 2 of two coordinates.
Midpoint(a, b) == RoundDiv(a + b, 2)

NoseOffsetX(lm) == lm.nose[1].x - Midpoint(lm.leftShoulder[1].x, lm.rightShoulder[1].x)

NoseOffsetY(lm) == lm.nose[1].y - Midpoint(lm.leftShoulder[1].y, lm.rightShoulder[1].y)

HasAllLandmarks(lm) ==
    lm.person /\ lm.nose # Null /\ lm.leftShoulder # Null /\ lm.rightShoulder # Null

\* captureBaselineSample(): Null, or the sample of this detector result.
captureBaselineSample(h, lm) ==
    IF ~h.video \/ ~h.poseLandmarker THEN Null
    ELSE IF ~lm.person THEN Null
    ELSE IF lm.nose = Null \/ lm.leftShoulder = Null \/ lm.rightShoulder = Null THEN Null
    ELSE IF ShoulderWidthOf(lm) < MinShoulderWidth THEN Null
    ELSE Some([noseOffsetX |-> NoseOffsetX(lm),
               noseOffsetY |-> NoseOffsetY(lm),
               shoulderWidth |-> ShoulderWidthOf(lm)])

\* resolveDirection(dx, dy, threshold): Null, or <<[direction, confidence]>>.
\* horizontalThreshold = 0.95, downThreshold = 1.05, upThreshold = 1.35 times the
\* threshold; dominanceRatio = 1.12; a confidence is the excess over 2.1 thresholds.
resolveDirection(dx, dy, threshold) ==
    LET horizontalThreshold == RoundDiv(threshold * 95, 100)
        downThreshold == RoundDiv(threshold * 105, 100)
        upThreshold == RoundDiv(threshold * 135, 100)
        absX == Abs(dx)
        absY == Abs(dy)
        Confidence(v, th) == clamp01(RoundDiv(v * 1000, Max(RoundDiv(th * 21, 10), 1)))
    IN  IF absX * 100 >= absY * 112 /\ absX > horizontalThreshold
        THEN Some([direction |-> IF dx > 0 THEN "right" ELSE "left",
                   confidence |-> Confidence(absX, horizontalThreshold)])
        ELSE IF absY * 100 >= absX * 112 /\ dy > downThreshold
        THEN Some([direction |-> "down", confidence |-> Confidence(dy, downThreshold)])
        ELSE IF absY * 100 >= absX * 112 /\ dy < -upThreshold
        THEN Some([direction |-> "up", confidence |-> Confidence(-dy, upThreshold)])
        ELSE Null

---------------------------------------------------------------------------
(* stop() and the classifier tick, loop(), as functions of the fields. *)

\* The debounce, smoothing and emission fields set to their empty values.
\* A clearing of the candidate that leaves its frame count.
ClearCandidateKeepingCount(h) ==
    [h EXCEPT !.candidateDirection = NoDirection,
              !.candidateConfidence = 0]

ClearCandidate(h) ==
    [h EXCEPT !.candidateDirection = NoDirection,
              !.candidateFrameCount = 0,
              !.candidateConfidence = 0]

ClearTransient(h) ==
    [ClearCandidate(h) EXCEPT !.lastEmittedDirection = NoDirection,
                              !.lastEmitAt = 0,
                              !.smoothedDx = 0,
                              !.smoothedDy = 0]

\* stop(): the fields when it returns (the pending tick is cancelled by the action).
StopFields(h) ==
    [ClearTransient(h) EXCEPT
        !.running = FALSE,
        !.rafId = FALSE,
        !.stream = FALSE,
        !.poseLandmarker = FALSE,
        !.baseline = Null,
        !.snapshot = [tracking |-> FALSE, calibrated |-> FALSE, fps |-> 0,
                      debug |-> "Stopped", lastDirection |-> NoDirection]]

\* loop(): the fps counters.
CountFrame(h, t) ==
    IF t - h.fpsTickStart >= FpsWindowMs
    THEN [h EXCEPT !.fps = RoundDiv((h.frameCount + 1) * 1000, t - h.fpsTickStart),
                   !.frameCount = 0,
                   !.fpsTickStart = t]
    ELSE [h EXCEPT !.frameCount = h.frameCount + 1]

\* A loss branch that keeps the smoothing, candidate and emission state.
TrackingLostKeeping(h, debug) ==
    [h EXCEPT !.snapshot = [h.snapshot EXCEPT !.tracking = FALSE, !.fps = h.fps, !.debug = debug]]

\* loop(): the two branches without the three landmarks.
TrackingLost(h, debug) ==
    [ClearTransient(h) EXCEPT
        !.snapshot = [h.snapshot EXCEPT !.tracking = FALSE, !.fps = h.fps, !.debug = debug]]

\* loop(): threshold = (0.09 / max(sensitivityScale, 0.4)) * normalizedShoulderWidth.
Threshold(shoulderWidth, baselineWidth) ==
    RoundDiv(9 * (shoulderWidth + baselineWidth), 20 * Max(sensitivityScale, MinSensitivity))

\* loop(): smoothed * (1 - 0.45) + raw * 0.45.
Smooth(smoothed, raw) == RoundDiv(smoothed * 55 + raw * 45, 100)

\* loop(): value * (1 - 0.035) + raw * 0.035.
Drift(value, raw) == RoundDiv(value * 965 + raw * 35, 1000)

\* A neutral test that every movement passes.
isNearNeutralAlways(sdx, sdy, threshold) == TRUE

isNearNeutral(sdx, sdy, threshold) ==
    Abs(sdx) * 100 < threshold * 65 /\ Abs(sdy) * 100 < threshold * 75

\* A confirmation that asks for one frame more than the code does.
requiredFramesPlusOne(candidateConfidence) ==
    IF candidateConfidence >= HighConfidence THEN 2 ELSE 3

requiredFrames(candidateConfidence) == IF candidateConfidence >= HighConfidence THEN 1 ELSE 2

\* A classifier without a re-emit gap.
minGapMsNone(direction, lastEmittedDirection) == 0

minGapMs(direction, lastEmittedDirection) ==
    IF direction = lastEmittedDirection THEN SameDirectionGapMs ELSE NewDirectionGapMs

\* A classifier that never suppresses a repeat.
IsRepeatNever(direction, lastEmittedDirection) == FALSE

\* Whether the repeat of the last emitted direction is suppressed.
IsRepeat(direction, lastEmittedDirection) == direction = lastEmittedDirection

\* A classifier that takes every resolved direction for the candidate it holds.
IsNewCandidateNever(h, sig) == FALSE

\* Whether the direction resolved is not the candidate carried over.
IsNewCandidate(h, sig) == h.candidateDirection # sig.direction

\* The result of one call of loop(): the fields, whether the next tick was
\* requested, the branch taken, the signal resolved and the event dispatched.
TickResult(h, scheduled, branch, signal, event) ==
    [h |-> h, scheduled |-> scheduled, branch |-> branch, signal |-> signal, event |-> event]

\* loop(): the debug text `Direction: ${signal.direction}`.
DirectionDebug(direction) ==
    CASE direction = "up" -> "Direction: up"
      [] direction = "down" -> "Direction: down"
      [] direction = "left" -> "Direction: left"
      [] OTHER -> "Direction: right"

\* loop(), from the candidate bookkeeping on (a direction was resolved).
\* A suppressed repeat that drops the candidate.
SuppressedClearing(h) == ClearCandidate(h)

\* The fields when a qualifying candidate repeats the last emitted direction:
\* the tick returns with the candidate as counted.
Suppressed(h) == h

\* A count of the frame that takes the tick's confidence for the candidate's.
AdvanceLatest(h, sig) ==
    [h EXCEPT !.candidateFrameCount = h.candidateFrameCount + 1,
              !.candidateConfidence = sig.confidence]

\* loop(): one more frame of the candidate, whose confidence is the greatest
\* resolved over its frames.
Advance(h, sig) ==
    [h EXCEPT !.candidateFrameCount = h.candidateFrameCount + 1,
              !.candidateConfidence = Max(h.candidateConfidence, sig.confidence)]

Debounce(h, t, sig) ==
    IF IsNewCandidate(h, sig)
    THEN TickResult([h EXCEPT !.candidateDirection = sig.direction,
                              !.candidateFrameCount = 1,
                              !.candidateConfidence = sig.confidence],
                    TRUE, "candidate", Some(sig), Null)
    ELSE
    LET h1 == Advance(h, sig)
    IN  IF h1.candidateFrameCount >= requiredFrames(h1.candidateConfidence)
           /\ t - h1.lastEmitAt >= minGapMs(sig.direction, h1.lastEmittedDirection)
        THEN IF IsRepeat(sig.direction, h1.lastEmittedDirection)
             THEN TickResult(Suppressed(h1), TRUE, "repeat", Some(sig), Null)
             ELSE TickResult(
                    [ClearCandidate(h1) EXCEPT
                        !.snapshot = [h1.snapshot EXCEPT !.lastDirection = sig.direction,
                                                         !.debug = DirectionDebug(sig.direction)],
                        !.lastEmittedDirection = sig.direction,
                        !.lastEmitAt = t],
                    TRUE, "emit", Some(sig),
                    Some([direction |-> sig.direction,
                          confidence |-> h1.candidateConfidence,
                          timestamp |-> t]))
        ELSE TickResult(h1, TRUE, "wait", Some(sig), Null)

\* A tick that leaves the snapshot as the tick before wrote it.
TrackedStale(h) == h

\* loop(): the snapshot written once the three landmarks are there.
Tracked(h) ==
    [h EXCEPT !.snapshot = [h.snapshot EXCEPT
                  !.tracking = TRUE,
                  !.fps = h.fps,
                  !.debug = IF h.baseline # Null THEN "Tracking"
                            ELSE "Ready to calibrate"]]

\* loop(), from the normalisation on (all landmarks present).
Classify(h, t, lm) ==
    LET shoulderWidth == ShoulderWidthOf(lm)
        h1 == Tracked(h)
    IN  IF h.baseline = Null \/ shoulderWidth < MinShoulderWidth
        THEN TickResult(h1, TRUE, "uncalibrated", Null, Null)
        ELSE
        LET baseline == h.baseline[1]
            rawX == NoseOffsetX(lm)
            rawY == NoseOffsetY(lm)
            dx0 == rawX - baseline.noseOffsetX
            dy == rawY - baseline.noseOffsetY
            dx == IF h.mirrorHorizontal THEN -dx0 ELSE dx0
            threshold == Threshold(shoulderWidth, baseline.shoulderWidth)
            sdx == Smooth(h.smoothedDx, dx)
            sdy == Smooth(h.smoothedDy, dy)
            adapted == IF isNearNeutral(sdx, sdy, threshold)
                       THEN [noseOffsetX |-> Drift(baseline.noseOffsetX, rawX),
                             noseOffsetY |-> Drift(baseline.noseOffsetY, rawY),
                             shoulderWidth |-> Drift(baseline.shoulderWidth, shoulderWidth)]
                       ELSE baseline
            h2 == [h1 EXCEPT !.smoothedDx = sdx,
                             !.smoothedDy = sdy,
                             !.baseline = Some(adapted)]
            signal == resolveDirection(sdx, sdy, threshold)
        IN  IF signal = Null
            THEN TickResult([ClearCandidate(h2) EXCEPT
                                !.snapshot = [h2.snapshot EXCEPT
                                                 !.debug = "Micro movement ignored"]],
                            TRUE, "none", Null, Null)
            ELSE Debounce(h2, t, signal[1])

\* loop(): one tick at time t on detector result lm.
loop(h, t, lm) ==
    IF ~h.running \/ ~h.video \/ ~h.poseLandmarker
    THEN TickResult(h, FALSE, "off", Null, Null)
    ELSE
    LET h1 == CountFrame(h, t)
    IN  IF ~lm.person
        THEN TickResult(TrackingLost(h1, "Tracking lost"), TRUE, "lost", Null, Null)
        ELSE IF lm.nose = Null \/ lm.leftShoulder = Null \/ lm.rightShoulder = Null
        THEN TickResult(TrackingLost(h1, "Need nose + shoulders in frame"),
                        TRUE, "missing", Null, Null)
        ELSE Classify(h1, t, lm)

---------------------------------------------------------------------------
(* start(), calibrate() and the animation-frame queue. *)

\* start(): the fields set once the pose model is there, before the first loop().
StartFields(h, t) ==
    [h EXCEPT !.poseLandmarker = TRUE,
              !.running = TRUE,
              !.frameCount = 0,
              !.fps = 0,
              !.fpsTickStart = t,
              !.snapshot = [tracking |-> FALSE, calibrated |-> FALSE, fps |-> 0,
                            debug |-> "Camera started", lastDirection |-> NoDirection]]

\* start(): the catch block around initPoseLandmarker().
InitFailedFields(h) == [h EXCEPT !.stream = FALSE]

\* calibrate(): the loop condition.
KeepSampling(samples, startedAt, t) ==
    Len(samples) < MaxSamples /\ t - startedAt < CalibrationBudgetMs

\* calibrate(): whether the samples collected are enough.
EnoughSamples(samples) == Len(samples) >= MinSamples

\* calibrate(): samples.map((sample) => sample.<field>).
FieldX(samples) == [i \in 1..Len(samples) |-> samples[i].noseOffsetX]

FieldY(samples) == [i \in 1..Len(samples) |-> samples[i].noseOffsetY]

FieldW(samples) == [i \in 1..Len(samples) |-> samples[i].shoulderWidth]

\* calibrate(): the baseline written on success.
BaselineOf(samples) ==
    [noseOffsetX |-> average(FieldX(samples)),
     noseOffsetY |-> average(FieldY(samples)),
     shoulderWidth |-> average(FieldW(samples))]

\* A successful calibration that writes the Baseline and resets nothing.
CalibratedFieldsKeeping(h, samples) ==
    [h EXCEPT !.baseline = Some(BaselineOf(samples)),
              !.snapshot = [h.snapshot EXCEPT !.calibrated = TRUE, !.debug = "Calibrated"]]

\* calibrate(): the fields written on success.
CalibratedFields(h, samples) ==
    [ClearTransient(h) EXCEPT
        !.baseline = Some(BaselineOf(samples)),
        !.snapshot = [h.snapshot EXCEPT !.calibrated = TRUE, !.debug = "Calibrated"]]

\* A failed calibration that drops the baseline it found.
CalibrationFailedClearing(h) ==
    [h EXCEPT !.baseline = Null,
              !.snapshot = [h.snapshot EXCEPT !.calibrated = FALSE]]

\* A failed calibration that reports the controller as not calibrated.
CalibrationFailedUncalibrated(h) ==
    [h EXCEPT !.snapshot = [h.snapshot EXCEPT !.calibrated = FALSE]]

\* calibrate(): the fields when it throws for lack of samples.
CalibrationFailedFields(h) == h

IdleCalibration == [pc |-> "idle", samples |-> <<>>, startedAt |-> 0]

NoStarts == [gum |-> 0, play |-> 0, init |-> 0]

\* A requestAnimationFrame registration: its callback, and whether its handle is
\* the one this.rafId holds.
LoopCallback == [cb |-> "loop", isRafId |-> TRUE]

CalibrateCallback == [cb |-> "calibrate", isRafId |-> FALSE]

\* A request that registers nothing.
RequestLoopDropped(queue) == queue

\* this.rafId = requestAnimationFrame(() => this.loop()): the earlier handles are
\* no longer the one this.rafId holds.
RequestLoop(queue) ==
    Append([i \in 1..Len(queue) |-> [queue[i] EXCEPT !.isRafId = FALSE]], LoopCallback)

\* A cancellation that drops every registered callback.
CancelEveryCallback(queue) == <<>>

\* cancelAnimationFrame(this.rafId): the registration with that handle is dropped.
CancelRaf(queue) == SelectSeq(queue, LAMBDA e : ~e.isRafId)

\* What a step reports: the operation, how it ended, the detector result it
\* read (Null when it read none) and, for a tick, the branch, the signal, the
\* event and the listeners called, in order.
Report(op, outcome, input, branch, signal, event, invoked) ==
    [op |-> op, outcome |-> outcome, input |-> input, branch |-> branch,
     signal |-> signal, event |-> event, invoked |-> invoked]

CallReport(op, outcome) == Report(op, outcome, Null, "", Null, Null, <<>>)

SampleReport(outcome, lm) == Report("calibrate", outcome, Some(lm), "", Null, Null, <<>>)

TickReport(op, h, lm, r) ==
    Report(op, "returned", IF r.branch = "off" THEN Null ELSE Some(lm),
           r.branch, r.signal, r.event,
           IF r.event # Null THEN h.listeners ELSE <<>>)

\* The last emitted event since the emission state was reset, after a tick.
PrevEventAfter(prev, r) ==
    IF r.event # Null THEN r.event
    ELSE IF r.branch \in {"lost", "missing"} THEN Null
    ELSE prev

\* The state after construction.
Constructed ==
    /\ hmc = InitController
    /\ starts = NoStarts
    /\ cal = IdleCalibration
    /\ rafQueue = <<>>
    /\ dueQueue = <<>>
    /\ now = 0
    /\ step = CallReport("new", "returned")
    /\ prevEvent = Null
    /\ stopped = FALSE
    /\ handles = <<>>

\* API calls and promise resolutions run between animation frames.
BetweenFrames == dueQueue = <<>>

MayCall == BetweenFrames /\ callsLeft > 0

\* this.listeners.add(listener): listeners is a Set, which keeps insertion
\* order and holds a value once.
SetAdd(set, value) ==
    IF \E i \in 1..Len(set) : set[i] = value THEN set ELSE Append(set, value)

\* this.listeners.delete(listener).
SetDelete(set, value) == SelectSeq(set, LAMBDA v : v # value)

\* The sequence without its i-th element.
RemoveAt(seq, i) == [k \in 1..(Len(seq) - 1) |-> IF k < i THEN seq[k] ELSE seq[k + 1]]

\* onDirection(listener): adds the listener and returns a handle that deletes it.
OnDirection(listener) ==
    /\ MayCall
    /\ callsLeft' = callsLeft - 1
    /\ hmc' = [hmc EXCEPT !.listeners = SetAdd(hmc.listeners, listener)]
    /\ handles' = Append(handles, listener)
    /\ step' = CallReport("onDirection", "returned")
    /\ UNCHANGED <<starts, cal, rafQueue, dueQueue, now, framesLeft, prevEvent, stopped,
                   game, applied>>

\* The i-th handle that onDirection returned and that was not called yet is
\* called: () => this.listeners.delete(listener).
Unregister(i) ==
    /\ MayCall
    /\ i \in 1..Len(handles)
    /\ callsLeft' = callsLeft - 1
    /\ hmc' = [hmc EXCEPT !.listeners = SetDelete(hmc.listeners, handles[i])]
    /\ handles' = RemoveAt(handles, i)
    /\ step' = CallReport("unregister", "returned")
    /\ UNCHANGED <<starts, cal, rafQueue, dueQueue, now, framesLeft, prevEvent, stopped,
                   game, applied>>

\* setMirrorHorizontal(enabled).
SetMirrorHorizontal(enabled) ==
    /\ MayCall
    /\ callsLeft' = callsLeft - 1
    /\ hmc' = [hmc EXCEPT !.mirrorHorizontal = enabled]
    /\ step' = CallReport("setMirrorHorizontal", "returned")
    /\ UNCHANGED <<starts, cal, rafQueue, dueQueue, now, framesLeft, prevEvent, stopped, handles, game, applied>>

\* start(), up to its first await: returns at once when running, throws without
\* a secure context or getUserMedia, else takes the video element and asks for
\* the camera.
StartCall(supported) ==
    /\ MayCall
    /\ callsLeft' = callsLeft - 1
    /\ IF hmc.running
       THEN /\ step' = CallReport("start", "returned")
            /\ UNCHANGED <<hmc, starts>>
       ELSE IF ~supported
       THEN /\ step' = CallReport("start", "threw")
            /\ UNCHANGED <<hmc, starts>>
       ELSE /\ hmc' = [hmc EXCEPT !.video = TRUE]
            /\ starts' = [starts EXCEPT !.gum = @ + 1]
            /\ step' = CallReport("start", "awaiting")
    /\ stopped' = FALSE
    /\ UNCHANGED <<cal, rafQueue, dueQueue, now, framesLeft, prevEvent, handles, game, applied>>

\* start(): getUserMedia settles.
StartCamera(ok) ==
    /\ BetweenFrames
    /\ starts.gum > 0
    /\ IF ok
       THEN /\ hmc' = [hmc EXCEPT !.stream = TRUE]
            /\ starts' = [starts EXCEPT !.gum = @ - 1, !.play = @ + 1]
            /\ step' = CallReport("start", "awaiting")
       ELSE /\ starts' = [starts EXCEPT !.gum = @ - 1]
            /\ step' = CallReport("start", "threw")
            /\ UNCHANGED hmc
    /\ UNCHANGED <<cal, rafQueue, dueQueue, now, callsLeft, framesLeft, prevEvent, stopped, handles, game, applied>>

\* start(): video.play() settles.
StartPlay(ok) ==
    /\ BetweenFrames
    /\ starts.play > 0
    /\ IF ok
       THEN /\ starts' = [starts EXCEPT !.play = @ - 1, !.init = @ + 1]
            /\ step' = CallReport("start", "awaiting")
       ELSE /\ starts' = [starts EXCEPT !.play = @ - 1]
            /\ step' = CallReport("start", "threw")
    /\ UNCHANGED <<hmc, cal, rafQueue, dueQueue, now, callsLeft, framesLeft, prevEvent, stopped, handles, game, applied>>

\* start(): initPoseLandmarker() fails for every candidate.
StartInitFailed ==
    /\ BetweenFrames
    /\ starts.init > 0
    /\ starts' = [starts EXCEPT !.init = @ - 1]
    /\ hmc' = InitFailedFields(hmc)
    /\ step' = CallReport("start", "threw")
    /\ UNCHANGED <<cal, rafQueue, dueQueue, now, callsLeft, framesLeft, prevEvent, stopped, handles, game, applied>>

\* start(): initPoseLandmarker() succeeds; start() sets the fields and calls loop().
StartRun(poses) ==
    /\ BetweenFrames
    /\ starts.init > 0
    /\ starts' = [starts EXCEPT !.init = @ - 1]
    /\ \E lm \in poses : \E r \in {loop(StartFields(hmc, now), now, lm)} :
         /\ hmc' = [r.h EXCEPT !.rafId = r.scheduled \/ hmc.rafId]
         /\ rafQueue' = IF r.scheduled THEN RequestLoop(rafQueue) ELSE rafQueue
         /\ step' = TickReport("start", hmc, lm, r)
         /\ prevEvent' = PrevEventAfter(prevEvent, r)
    /\ UNCHANGED <<cal, dueQueue, now, callsLeft, framesLeft, stopped, handles, game, applied>>

\* stop().
Stop ==
    /\ MayCall
    /\ callsLeft' = callsLeft - 1
    /\ hmc' = StopFields(hmc)
    /\ rafQueue' = IF hmc.rafId THEN CancelRaf(rafQueue) ELSE rafQueue
    /\ step' = CallReport("stop", "returned")
    /\ prevEvent' = Null
    /\ stopped' = TRUE
    /\ UNCHANGED <<starts, cal, dueQueue, now, framesLeft, handles, game, applied>>

\* calibrate(), up to its first await: throws when not started, else takes the
\* first sample and waits for the next animation frame.  The caller makes one
\* call at a time (main.ts disables its button until the call settles).
CalibrateCall(poses) ==
    /\ MayCall
    /\ cal.pc = "idle"
    /\ callsLeft' = callsLeft - 1
    /\ IF ~hmc.running \/ ~hmc.video \/ ~hmc.poseLandmarker
       THEN /\ step' = CallReport("calibrate", "notStarted")
            /\ UNCHANGED <<cal, rafQueue>>
       ELSE \E lm \in poses :
              /\ cal' = [pc |-> "waiting",
                         samples |-> captureBaselineSample(hmc, lm),
                         startedAt |-> now]
              /\ rafQueue' = Append(rafQueue, CalibrateCallback)
              /\ step' = SampleReport("awaiting", lm)
    /\ UNCHANGED <<hmc, starts, dueQueue, now, framesLeft, prevEvent, stopped, handles, game, applied>>

\* calibrate() resumes in an animation frame: another sample, or the end.
CalibrateResume(poses) ==
    /\ dueQueue # <<>>
    /\ Head(dueQueue).cb = "calibrate"
    /\ dueQueue' = Tail(dueQueue)
    /\ IF KeepSampling(cal.samples, cal.startedAt, now)
       THEN \E lm \in poses :
              /\ cal' = [cal EXCEPT !.samples = @ \o captureBaselineSample(hmc, lm)]
              /\ rafQueue' = Append(rafQueue, CalibrateCallback)
              /\ step' = SampleReport("awaiting", lm)
              /\ UNCHANGED <<hmc, prevEvent>>
       ELSE IF ~EnoughSamples(cal.samples)
       THEN /\ cal' = IdleCalibration
            /\ hmc' = CalibrationFailedFields(hmc)
            /\ step' = CallReport("calibrate", "failed")
            /\ UNCHANGED <<rafQueue, prevEvent>>
       ELSE /\ cal' = IdleCalibration
            /\ hmc' = CalibratedFields(hmc, cal.samples)
            /\ step' = CallReport("calibrate", "calibrated")
            /\ prevEvent' = Null
            /\ UNCHANGED rafQueue
    /\ UNCHANGED <<starts, now, callsLeft, framesLeft, stopped, handles, game, applied>>

\* The animation-frame callback () => this.loop().
Tick(poses) ==
    /\ dueQueue # <<>>
    /\ Head(dueQueue).cb = "loop"
    /\ dueQueue' = Tail(dueQueue)
    /\ \E lm \in poses : \E r \in {loop(hmc, now, lm)} :
         /\ hmc' = [r.h EXCEPT !.rafId = r.scheduled \/ hmc.rafId]
         /\ rafQueue' = IF r.scheduled THEN RequestLoop(rafQueue) ELSE rafQueue
         /\ step' = TickReport("tick", hmc, lm, r)
         /\ prevEvent' = PrevEventAfter(prevEvent, r)
    /\ UNCHANGED <<starts, cal, now, callsLeft, framesLeft, stopped, handles, game, applied>>

\* The next animation frame: the clock has advanced and the callbacks registered
\* become due.
Frame(durations) ==
    /\ BetweenFrames
    /\ rafQueue # <<>>
    /\ framesLeft > 0
    /\ framesLeft' = framesLeft - 1
    /\ \E dt \in durations : now' = now + dt
    /\ dueQueue' = rafQueue
    /\ rafQueue' = <<>>
    /\ step' = CallReport("frame", "returned")
    /\ UNCHANGED <<hmc, starts, cal, callsLeft, prevEvent, stopped, handles, game, applied>>

\* The next animation frame while calibrate() waits for it: the browser keeps
\* firing frame callbacks for as long as a calibration is in progress.
CalibrationFrame(durations) ==
    /\ BetweenFrames
    /\ rafQueue # <<>>
    /\ cal.pc = "waiting"
    /\ \E dt \in durations : now' = now + dt
    /\ dueQueue' = rafQueue
    /\ rafQueue' = <<>>
    /\ step' = CallReport("frame", "returned")
    /\ UNCHANGED <<hmc, starts, cal, callsLeft, framesLeft, prevEvent, stopped, handles, game, applied>>

\* Time passes while no callback is registered.
Elapse(durations) ==
    /\ BetweenFrames
    /\ rafQueue = <<>>
    /\ framesLeft > 0
    /\ framesLeft' = framesLeft - 1
    /\ \E dt \in durations : now' = now + dt
    /\ step' = CallReport("elapse", "returned")
    /\ UNCHANGED <<hmc, starts, cal, rafQueue, dueQueue, callsLeft, prevEvent, stopped, handles, game, applied>>

---------------------------------------------------------------------------
(* SnakeGame: the board main.ts drives with the controller's events.           *)

\* DEFAULT_GRID_COLS, DEFAULT_GRID_ROWS and speedToMs(7) of main.ts.
AppOptions == [cols |-> 28, rows |-> 18, wrapAround |-> FALSE, speedMs |-> 143]

\* clampInt(value, min, max), on integers.
clampInt(value, lo, hi) == Min(hi, Max(lo, value))

\* The vector setDirection() stores for a direction.
Vector(direction) ==
    CASE direction = "up" -> Point(0, -1)
      [] direction = "down" -> Point(0, 1)
      [] direction = "left" -> Point(-1, 0)
      [] direction = "right" -> Point(1, 0)

\* The exact opposite of a vector.
Opposite(v) == Point(-v.x, -v.y)

\* this.snake.some((part) => part.x === cell.x && part.y === cell.y).
Occupies(snake, cell) == \E i \in 1..Len(snake) : snake[i] = cell

\* A spawnFood() that takes the first cell Math.random gives.
spawnFoodAnywhere(snake, cells) == cells

\* spawnFood(): the cells its loop can end on, of those Math.random reaches.
spawnFood(snake, cells) == {cell \in cells : ~Occupies(snake, cell)}

\* The snake reset() lays out.
ResetSnake(g) ==
    LET centerX == g.cols \div 2
        centerY == g.rows \div 2
    IN  <<Point(centerX, centerY), Point(centerX - 1, centerY), Point(centerX - 2, centerY)>>

\* reset(), with the cell its spawnFood() call chose.
reset(g, food) ==
    [g EXCEPT !.snake = ResetSnake(g),
              !.direction = Point(1, 0),
              !.nextDirection = Point(1, 0),
              !.score = 0,
              !.food = food]

\* new SnakeGame(canvas, callbacks, options), with the cell spawnFood() chose.
SnakeGame(options, food) ==
    reset([cols |-> clampInt(options.cols, 12, 60),
           rows |-> clampInt(options.rows, 10, 40),
           wrapAround |-> options.wrapAround,
           speedMs |-> clampInt(options.speedMs, 50, 400),
           snake |-> <<>>,
           food |-> Point(0, 0),
           direction |-> Point(1, 0),
           nextDirection |-> Point(1, 0),
           running |-> FALSE,
           tickId |-> Null,
           score |-> 0,
           intervals |-> {}],
          food)

\* SnakeGame.stop().
stopGame(g) ==
    [g EXCEPT !.running = FALSE,
              !.intervals = IF g.tickId # Null THEN @ \ {g.tickId[1]} ELSE @,
              !.tickId = Null]

\* window.setInterval: an id no active interval has.
FreshInterval(g) == CHOOSE id \in 1..(Cardinality(g.intervals) + 1) : id \notin g.intervals

\* startTicker().
startTicker(g) ==
    LET cleared == IF g.tickId # Null THEN g.intervals \ {g.tickId[1]} ELSE g.intervals
        g1 == [g EXCEPT !.intervals = cleared]
        id == FreshInterval(g1)
    IN  [g1 EXCEPT !.tickId = Some(id), !.intervals = @ \cup {id}]

\* SnakeGame.start(), with the cell reset() chose for the food.
startGame(g, food) == startTicker([reset(stopGame(g), food) EXCEPT !.running = TRUE])

\* updateOptions(next): the options after lines 622-633; an option that next
\* leaves undefined is Null.
Updated(g, next) ==
    [g EXCEPT !.cols = IF next.cols # Null THEN clampInt(next.cols[1], 12, 60) ELSE @,
              !.rows = IF next.rows # Null THEN clampInt(next.rows[1], 10, 40) ELSE @,
              !.wrapAround = IF next.wrapAround # Null THEN next.wrapAround[1] ELSE @,
              !.speedMs = IF next.speedMs # Null THEN clampInt(next.speedMs[1], 50, 400) ELSE @]

gridChanged(g, next) == g.cols # Updated(g, next).cols \/ g.rows # Updated(g, next).rows

speedChanged(g, next) == g.speedMs # Updated(g, next).speedMs

\* updateOptions(next), with the cell reset() chose for the food when the grid
\* changed.
updateOptions(g, next, food) ==
    LET wasRunning == g.running
        g1 == Updated(g, next)
    IN  IF gridChanged(g, next)
        THEN LET g2 == reset(stopGame(g1), food)
             IN  IF wasRunning THEN startTicker([g2 EXCEPT !.running = TRUE]) ELSE g2
        ELSE IF wasRunning /\ speedChanged(g, next) THEN startTicker(g1)
        ELSE g1

\* The cells spawnFood() can choose in this call; the food stays when the
\* grid does not change.
UpdateFood(g, next, cells) ==
    IF gridChanged(g, next) THEN spawnFood(ResetSnake(Updated(g, next)), cells) ELSE {g.food}

\* setDirection(direction): a turn is taken when the pending direction is on
\* the other axis.
setDirection(g, direction) ==
    LET current == g.nextDirection
    IN  IF direction = "up" /\ current.y = 0 THEN [g EXCEPT !.nextDirection = Point(0, -1)]
        ELSE IF direction = "down" /\ current.y = 0 THEN [g EXCEPT !.nextDirection = Point(0, 1)]
        ELSE IF direction = "left" /\ current.x = 0 THEN [g EXCEPT !.nextDirection = Point(-1, 0)]
        ELSE IF direction = "right" /\ current.x = 0 THEN [g EXCEPT !.nextDirection = Point(1, 0)]
        ELSE g

\* tick(): whether it gets past its two early returns.
Moves(g) == g.running /\ g.snake # <<>>

\* tick(): head + direction, before wrapping.
RawHead(g) == Point(g.snake[1].x + g.nextDirection.x, g.snake[1].y + g.nextDirection.y)

hitsWall(g) ==
    LET next == RawHead(g)
    IN  next.x < 0 \/ next.x >= g.cols \/ next.y < 0 \/ next.y >= g.rows

nextHead(g) ==
    LET next == RawHead(g)
        wrapX == IF next.x < 0 THEN g.cols - 1 ELSE IF next.x >= g.cols THEN 0 ELSE next.x
        wrapY == IF next.y < 0 THEN g.rows - 1 ELSE IF next.y >= g.rows THEN 0 ELSE next.y
    IN  IF g.wrapAround THEN Point(wrapX, wrapY) ELSE next

willGrow(g) == nextHead(g) = g.food

hitsBody(g) ==
    LET bodyToCheck == IF willGrow(g) THEN g.snake ELSE SubSeq(g.snake, 1, Len(g.snake) - 1)
    IN  Occupies(bodyToCheck, nextHead(g))

\* tick(): whether it ends the game.
GameOver(g) == (hitsWall(g) /\ ~g.wrapAround) \/ hitsBody(g)

\* this.snake.unshift(nextHead).
Unshifted(g) == <<nextHead(g)>> \o g.snake

\* The cells spawnFood() can choose in this tick; the food stays when the
\* snake does not grow.
TickFood(g, cells) ==
    IF Moves(g) /\ ~GameOver(g) /\ willGrow(g) THEN spawnFood(Unshifted(g), cells) ELSE {g.food}

\* tick(), with the cell spawnFood() chose.
tick(g, food) ==
    IF ~Moves(g) THEN g
    ELSE LET g1 == [g EXCEPT !.direction = g.nextDirection]
         IN  IF GameOver(g) THEN stopGame(g1)
             ELSE IF willGrow(g)
                  THEN [g1 EXCEPT !.snake = Unshifted(g), !.score = @ + 1, !.food = food]
                  ELSE [g1 EXCEPT !.snake = SubSeq(Unshifted(g), 1, Len(g.snake))]

\* The page once main.ts has constructed the game; nothing starts it.
GameLoaded(cells) ==
    /\ game \in {SnakeGame(AppOptions, food) : food \in spawnFood(ResetSnake(AppOptions), cells)}
    /\ applied = Null

\* The start button of main.ts: snake.start().
GameStart(cells) ==
    /\ MayCall
    /\ callsLeft' = callsLeft - 1
    /\ \E food \in spawnFood(ResetSnake(game), cells) : game' = startGame(game, food)
    /\ applied' = Null
    /\ step' = CallReport("snake.start", "returned")
    /\ UNCHANGED <<hmc, starts, cal, rafQueue, dueQueue, now, framesLeft, prevEvent, stopped,
                   handles>>

\* snake.stop().
GameStop ==
    /\ MayCall
    /\ callsLeft' = callsLeft - 1
    /\ game' = stopGame(game)
    /\ step' = CallReport("snake.stop", "returned")
    /\ UNCHANGED <<hmc, starts, cal, rafQueue, dueQueue, now, framesLeft, prevEvent, stopped,
                   handles, applied>>

\* The listener of main.ts gets an event of this direction and hands it to
\* the game when the game is running.
GameSetDirection(direction) ==
    /\ MayCall
    /\ callsLeft' = callsLeft - 1
    /\ game' = IF game.running THEN setDirection(game, direction) ELSE game
    /\ step' = CallReport("snake.setDirection", IF game.running THEN direction ELSE "ignored")
    /\ UNCHANGED <<hmc, starts, cal, rafQueue, dueQueue, now, framesLeft, prevEvent, stopped,
                   handles, applied>>

\* An interval of the window fires: its callback runs tick().
GameTick(cells) ==
    /\ BetweenFrames
    /\ framesLeft > 0
    /\ game.intervals # {}
    /\ framesLeft' = framesLeft - 1
    /\ \E food \in TickFood(game, cells) : game' = tick(game, food)
    /\ applied' = IF Moves(game) THEN Some(game.nextDirection) ELSE applied
    /\ step' = CallReport("snake.tick",
                          IF ~Moves(game) THEN "off"
                          ELSE IF GameOver(game) THEN "gameOver" ELSE "moved")
    /\ UNCHANGED <<hmc, starts, cal, rafQueue, dueQueue, now, callsLeft, prevEvent, stopped,
                   handles>>

\* The grid, wrap-around and speed controls of main.ts: snake.updateOptions(next).
GameUpdateOptions(next, cells) ==
    /\ MayCall
    /\ callsLeft' = callsLeft - 1
    /\ \E food \in UpdateFood(game, next, cells) : game' = updateOptions(game, next, food)
    /\ applied' = IF gridChanged(game, next) THEN Null ELSE applied
    /\ step' = CallReport("snake.updateOptions",
                          IF gridChanged(game, next) /\ game.running THEN "restarted"
                          ELSE "returned")
    /\ UNCHANGED <<hmc, starts, cal, rafQueue, dueQueue, now, framesLeft, prevEvent, stopped,
                   handles>>

\* The cell the food is on when nothing moves the snake.
IdleFood == {Point(0, 0)}

\* The listener main.ts registers once the controller is constructed.
UiListener == "ui"

\* The state once main.ts has run: the controller constructed and its listener
\* registered.
Mounted ==
    /\ hmc = [InitController EXCEPT !.listeners = <<UiListener>>]
    /\ starts = NoStarts
    /\ cal = IdleCalibration
    /\ rafQueue = <<>>
    /\ dueQueue = <<>>
    /\ now = 0
    /\ step = CallReport("onDirection", "returned")
    /\ prevEvent = Null
    /\ stopped = FALSE
    /\ handles = <<UiListener>>

---------------------------------------------------------------------------
(* Spec: sessions on a working camera.  The caller awaits start() before it    *)
(* calls start() again (main.ts disables its button meanwhile), calibrates in  *)
(* the neutral pose until a baseline is there and may stop at any time; the    *)
(* detector reports head movements, dropped frames and missing landmarks.      *)

\* Detector results and frame durations (ms) of the environment.
Poses == {NoPerson, NoNosePose, RightMidPose, RightLowPose, DownPose}

NeutralPoses == {NeutralPose}

FrameDurations == {40, 1800}

Init ==
    /\ Mounted
    /\ GameLoaded(IdleFood)
    /\ callsLeft = MaxCalls
    /\ framesLeft = MaxFrames

Next ==
    \/ (starts = NoStarts /\ ~hmc.running /\ StartCall(TRUE))
    \/ StartCamera(TRUE)
    \/ StartPlay(TRUE)
    \/ StartRun(Poses)
    \/ Stop
    \/ (hmc.baseline = Null /\ CalibrateCall(NeutralPoses))
    \/ CalibrateResume(NeutralPoses)
    \/ Tick(Poses)
    \/ Frame(FrameDurations)

Spec == Init /\ [][Next]_vars

---------------------------------------------------------------------------
(* SpecCalibrate: calibrations.  The caller starts on a working camera and     *)
(* calibrates, again and again, without stopping; while a calibration samples the detector the   *)
(* subject sits in the neutral pose and may settle into a slouched one, and    *)
(* the detector also reports dropped frames and coincident shoulders.          *)

MaxCalibrateCalls == 3
MaxCalibrateFrames == 12

SlouchSample == captureBaselineSample([video |-> TRUE, poseLandmarker |-> TRUE], SlouchPose)

\* Once a slouched sample was taken the subject does not sit up again.
SamplePoses ==
    {NoPerson, SlouchPose, FlatPose}
        \cup IF \E i \in 1..Len(cal.samples) : Some(cal.samples[i]) = SlouchSample
             THEN {} ELSE {NeutralPose}

TrackedPoses == {NeutralPose}

SampleDurations == {100, 1800}

InitCalibrate ==
    /\ Mounted
    /\ GameLoaded(IdleFood)
    /\ callsLeft = MaxCalibrateCalls
    /\ framesLeft = MaxCalibrateFrames

NextCalibrate ==
    \/ (starts = NoStarts /\ ~hmc.running /\ StartCall(TRUE))
    \/ StartCamera(TRUE)
    \/ StartPlay(TRUE)
    \/ StartRun(TrackedPoses)
    \/ CalibrateCall(SamplePoses)
    \/ CalibrateResume(SamplePoses)
    \/ Tick(TrackedPoses)
    \/ Frame(SampleDurations)

SpecCalibrate == InitCalibrate /\ [][NextCalibrate]_vars

---------------------------------------------------------------------------
(* SpecLifecycle: every interleaving of start(), stop() and calibrate(), with  *)
(* start() calls that overlap and cameras, playbacks and pose models that      *)
(* fail, on a detector that sees the subject in the neutral pose or nobody.    *)

MaxLifecycleCalls == 3
MaxLifecycleFrames == 3

LifecyclePoses == {NoPerson, NeutralPose}

LifecycleDurations == {40, 1800}

InitLifecycle ==
    /\ Constructed
    /\ GameLoaded(IdleFood)
    /\ callsLeft = MaxLifecycleCalls
    /\ framesLeft = MaxLifecycleFrames

NextLifecycle ==
    \/ \E supported \in BOOLEAN : StartCall(supported)
    \/ \E ok \in BOOLEAN : StartCamera(ok)
    \/ \E ok \in BOOLEAN : StartPlay(ok)
    \/ StartInitFailed
    \/ StartRun(LifecyclePoses)
    \/ Stop
    \/ CalibrateCall(LifecyclePoses)
    \/ CalibrateResume(LifecyclePoses)
    \/ Tick(LifecyclePoses)
    \/ Frame(LifecycleDurations)
    \/ Elapse(LifecycleDurations)

SpecLifecycle == InitLifecycle /\ [][NextLifecycle]_vars

---------------------------------------------------------------------------
(* SpecRecalibrate: the caller starts on a working camera and calibrates more  *)
(* than once while the subject, seen in every frame, moves the head to the     *)
(* right and back between the samples, which find the neutral pose; the frames *)
(* are evenly spaced.                                                          *)

MaxRecalibrateCalls == 3
MaxRecalibrateFrames == 13

MovingPoses == {NeutralPose, RightMidPose}

EvenDurations == {300}

InitRecalibrate ==
    /\ Mounted
    /\ GameLoaded(IdleFood)
    /\ callsLeft = MaxRecalibrateCalls
    /\ framesLeft = MaxRecalibrateFrames

NextRecalibrate ==
    \/ (starts = NoStarts /\ ~hmc.running /\ StartCall(TRUE))
    \/ StartCamera(TRUE)
    \/ StartPlay(TRUE)
    \/ StartRun(MovingPoses)
    \/ CalibrateCall(NeutralPoses)
    \/ CalibrateResume(NeutralPoses)
    \/ Tick(MovingPoses)
    \/ Frame(EvenDurations)

SpecRecalibrate == InitRecalibrate /\ [][NextRecalibrate]_vars

---------------------------------------------------------------------------
(* SpecLive: calibrations that run to their end.  The caller starts on a       *)
(* working camera, calibrates and may stop at any time; frames outside a       *)
(* calibration are bounded, frames during one keep coming, every frame          *)
(* advances the clock, and a callback that is due is run.                      *)

MaxLiveCalls == 3
MaxLiveFrames == 2

\* Evenly spaced frames: 12 samples take 1650 ms, the budget ends at 1800 ms.
LiveDurations == {150}

InitLive ==
    /\ Mounted
    /\ GameLoaded(IdleFood)
    /\ callsLeft = MaxLiveCalls
    /\ framesLeft = MaxLiveFrames

NextLive ==
    \/ (starts = NoStarts /\ ~hmc.running /\ StartCall(TRUE))
    \/ StartCamera(TRUE)
    \/ StartPlay(TRUE)
    \/ StartRun(LifecyclePoses)
    \/ Stop
    \/ CalibrateCall(LifecyclePoses)
    \/ CalibrateResume(LifecyclePoses)
    \/ Tick(LifecyclePoses)
    \/ (cal.pc = "idle" /\ Frame(LiveDurations))
    \/ CalibrationFrame(LiveDurations)

SpecLive ==
    /\ InitLive
    /\ [][NextLive]_vars
    /\ WF_vars(CalibrationFrame(LiveDurations))
    /\ WF_vars(CalibrateResume(LifecyclePoses))
    /\ WF_vars(Tick(LifecyclePoses))

---------------------------------------------------------------------------
(* SpecListeners: the caller registers and unregisters listeners, starts on a  *)
(* working camera and calibrates; the samples find the neutral pose, the ticks *)
(* a head turned to the right; the frames are evenly spaced.                   *)

MaxListenerCalls == 5
MaxListenerFrames == 8

\* The callbacks the caller has; it may register one more than once.
Listeners == {UiListener, "log"}

TurnedPoses == {RightMidPose}

InitListeners ==
    /\ Constructed
    /\ GameLoaded(IdleFood)
    /\ callsLeft = MaxListenerCalls
    /\ framesLeft = MaxListenerFrames

NextListeners ==
    \/ \E listener \in Listeners : OnDirection(listener)
    \/ \E i \in 1..2 : Unregister(i)
    \/ (starts = NoStarts /\ ~hmc.running /\ StartCall(TRUE))
    \/ StartCamera(TRUE)
    \/ StartPlay(TRUE)
    \/ StartRun(TurnedPoses)
    \/ (hmc.baseline = Null /\ CalibrateCall(NeutralPoses))
    \/ CalibrateResume(NeutralPoses)
    \/ Tick(TurnedPoses)
    \/ Frame(EvenDurations)

SpecListeners == InitListeners /\ [][NextListeners]_vars

---------------------------------------------------------------------------
(* SpecSnake: the game on the page.  The player starts and stops it, the       *)
(* listener of main.ts hands it directions at any moment between two ticks of  *)
(* its interval, and the food lands on one of a few cells around the centre.   *)

MaxSnakeCalls == 4
MaxSnakeTicks == 4

\* The cells Math.random lands the food on.
FoodCells == {Point(15, 9), Point(16, 9), Point(14, 8), Point(13, 9)}

InitSnake ==
    /\ Mounted
    /\ GameLoaded(FoodCells)
    /\ callsLeft = MaxSnakeCalls
    /\ framesLeft = MaxSnakeTicks

NextSnake ==
    \/ GameStart(FoodCells)
    \/ GameStop
    \/ \E direction \in HeadDirection : GameSetDirection(direction)
    \/ GameTick(FoodCells)

SpecSnake == InitSnake /\ [][NextSnake]_vars

---------------------------------------------------------------------------
(* SpecDrift: the subject sits far from the camera, so that the shoulders are  *)
(* a little wider than the least width the controller accepts; the caller      *)
(* starts and calibrates there, and then the subject leans in and out, holds   *)
(* still or turns the head; the frames are evenly spaced.                      *)

MaxDriftCalls == 2
MaxDriftFrames == 12

\* Shoulders 0.00012 apart, the nose just above their centre.
NarrowPose ==
    Landmarks(Some(Point(50000, 49988)), Some(Point(50006, 50000)), Some(Point(49994, 50000)))

\* The same nose offset with the shoulders 0.004 apart.
WidePose ==
    Landmarks(Some(Point(50000, 49988)), Some(Point(50200, 50000)), Some(Point(49800, 50000)))

\* The narrow pose with the nose 0.0001 to the side.
NarrowTurnedPose ==
    Landmarks(Some(Point(49990, 49988)), Some(Point(50006, 50000)), Some(Point(49994, 50000)))

NarrowPoses == {NarrowPose}

DriftPoses == {NarrowPose, WidePose, NarrowTurnedPose, NeutralPose}

InitDrift ==
    /\ Mounted
    /\ GameLoaded(IdleFood)
    /\ callsLeft = MaxDriftCalls
    /\ framesLeft = MaxDriftFrames

NextDrift ==
    \/ (starts = NoStarts /\ ~hmc.running /\ StartCall(TRUE))
    \/ StartCamera(TRUE)
    \/ StartPlay(TRUE)
    \/ StartRun(DriftPoses)
    \/ (hmc.baseline = Null /\ CalibrateCall(NarrowPoses))
    \/ CalibrateResume(NarrowPoses)
    \/ Tick(DriftPoses)
    \/ Frame(EvenDurations)

SpecDrift == InitDrift /\ [][NextDrift]_vars

---------------------------------------------------------------------------
(* SpecRestart: every interleaving of start(), stop(), calibrate() and ticks   *)
(* on a working camera, with start() calls that overlap and sessions that are  *)
(* stopped and started again; the samples find the neutral pose, the ticks the *)
(* neutral pose or a head turned to the right; the frames are evenly spaced.   *)

MaxRestartCalls == 4
MaxRestartFrames == 9

InitRestart ==
    /\ Mounted
    /\ GameLoaded(IdleFood)
    /\ callsLeft = MaxRestartCalls
    /\ framesLeft = MaxRestartFrames

NextRestart ==
    \/ StartCall(TRUE)
    \/ StartCamera(TRUE)
    \/ StartPlay(TRUE)
    \/ StartRun(MovingPoses)
    \/ Stop
    \/ CalibrateCall(NeutralPoses)
    \/ CalibrateResume(NeutralPoses)
    \/ Tick(MovingPoses)
    \/ Frame(EvenDurations)

SpecRestart == InitRestart /\ [][NextRestart]_vars

---------------------------------------------------------------------------
(* SpecTicks: sessions on a working camera with a browser that keeps running:  *)
(* while the model's frames last, a frame comes when a callback waits for one, *)
(* and a callback that is due is run.  The caller awaits start(), calibrates   *)
(* in the neutral pose and may stop at any time; outside a calibration the     *)
(* detector sees the subject still or turned to the right, nobody, or no nose, *)
(* during one it sees what the samples see, in evenly spaced frames.           *)

MaxTickCalls == 3
MaxTickFrames == 10

TickPoses == {NoPerson, NoNosePose, NeutralPose, RightMidPose}

\* A frame 40 ms after the last one, or 300 ms after it.
TickDurations == {40, 300}

\* What the detector sees and how far apart the frames are in this state.
PosesNow == IF cal.pc = "idle" THEN TickPoses ELSE NeutralPoses

DurationsNow == IF cal.pc = "idle" THEN TickDurations ELSE EvenDurations

InitTicks ==
    /\ Mounted
    /\ GameLoaded(IdleFood)
    /\ callsLeft = MaxTickCalls
    /\ framesLeft = MaxTickFrames

NextTicks ==
    \/ (starts = NoStarts /\ ~hmc.running /\ StartCall(TRUE))
    \/ StartCamera(TRUE)
    \/ StartPlay(TRUE)
    \/ StartRun(TickPoses)
    \/ Stop
    \/ (hmc.baseline = Null /\ CalibrateCall(NeutralPoses))
    \/ CalibrateResume(NeutralPoses)
    \/ Tick(PosesNow)
    \/ Frame(DurationsNow)

SpecTicks ==
    /\ InitTicks
    /\ [][NextTicks]_vars
    /\ WF_vars(Frame(DurationsNow))
    /\ WF_vars(Tick(PosesNow))
    /\ WF_vars(CalibrateResume(NeutralPoses))

---------------------------------------------------------------------------
(* SpecBoard: the game with its settings.  The player sets the smallest grid,  *)
(* switches wrap-around and changes the speed at any moment, starts and stops  *)
(* the game and turns the snake between the ticks of the interval; the food    *)
(* lands on one of a few cells around the centre of the grid.                  *)

MaxBoardCalls == 4
MaxBoardTicks == 7

\* The cells Math.random lands the food on, in the grids of SpecBoard.
BoardFoodCells ==
    {Point(15, 9), Point(14, 8), Point(13, 9), Point(7, 5), Point(6, 4), Point(5, 5)}

Unset == [cols |-> Null, rows |-> Null, wrapAround |-> Null, speedMs |-> Null]

\* applyGridSettings (a grid below the least one, and the grid of the page),
\* the wrap-around checkbox and the speed slider (speedToMs(4)).
OptionUpdates ==
    {[Unset EXCEPT !.cols = Some(5), !.rows = Some(10)],
     [Unset EXCEPT !.cols = Some(28), !.rows = Some(18)],
     [Unset EXCEPT !.wrapAround = Some(TRUE)],
     [Unset EXCEPT !.wrapAround = Some(FALSE)],
     [Unset EXCEPT !.speedMs = Some(250)]}

\* The turns the player makes.
BoardTurns == {"up", "left"}

InitBoard ==
    /\ Mounted
    /\ GameLoaded(BoardFoodCells)
    /\ callsLeft = MaxBoardCalls
    /\ framesLeft = MaxBoardTicks

NextBoard ==
    \/ GameStart(BoardFoodCells)
    \/ GameStop
    \/ \E direction \in BoardTurns : GameSetDirection(direction)
    \/ \E next \in OptionUpdates : GameUpdateOptions(next, BoardFoodCells)
    \/ GameTick(BoardFoodCells)

SpecBoard == InitBoard /\ [][NextBoard]_vars

---------------------------------------------------------------------------
(* The classifier's properties, under Spec.  A step that runs loop() reports   *)
(* the branch taken in step'; the fields it started from are those of hmc,     *)
(* after start()'s own writes when start() made the call.                      *)

\* The fields loop() reads in this step.
FieldsBefore == IF step'.op = "start" THEN StartFields(hmc, now) ELSE hmc

\* This step ran loop() and a direction was resolved in it.
Resolved == step'.branch \in {"candidate", "repeat", "emit", "wait"}

\* C1: once an event with direction d has been emitted, no further event with
\* direction d is emitted until an event with another direction has been
\* emitted or a tracking-loss tick, a successful calibrate() or stop() has
\* reset the emission state: an event never repeats the direction of the last
\* event emitted since the last reset.
C1_RepeatSuppression ==
    [][(step'.event # Null /\ prevEvent # Null)
          => step'.event[1].direction # prevEvent[1].direction]_vars

\* C1 happens: the direction of the last event is held, confirmed again and
\* past the gap for a repeat, and the tick emits nothing.
C1_Witness ==
    /\ step.branch = "repeat"
    /\ prevEvent # Null
    /\ step.signal[1].direction = prevEvent[1].direction
    /\ now - prevEvent[1].timestamp >= SameDirectionGapMs
    /\ step.event = Null

\* C2: when a direction that is not the last emitted one is resolved with
\* confidence below 0.72 and the re-emit gap is satisfied, the tick where it is
\* not yet the candidate emits no event, and the next tick, where it is the
\* candidate carried over with one frame and a confidence below 0.72, emits
\* exactly one event, of that direction.
C2_LowConfidenceConfirmation ==
    [][(/\ Resolved
        /\ step'.signal[1].confidence < HighConfidence
        /\ step'.signal[1].direction # FieldsBefore.lastEmittedDirection
        /\ now - FieldsBefore.lastEmitAt >= NewDirectionGapMs)
          => /\ FieldsBefore.candidateDirection # step'.signal[1].direction
                  => (step'.event = Null /\ step'.invoked = <<>>)
             /\ (/\ FieldsBefore.candidateDirection = step'.signal[1].direction
                 /\ FieldsBefore.candidateFrameCount = 1
                 /\ FieldsBefore.candidateConfidence < HighConfidence)
                  => /\ step'.event # Null
                     /\ step'.event[1].direction = step'.signal[1].direction
                     /\ step'.invoked = <<UiListener>>]_vars

\* C2 happens: an event confirmed on the second tick, both ticks below 0.72.
C2_Witness ==
    /\ step.branch = "emit"
    /\ step.signal[1].confidence < HighConfidence
    /\ step.event[1].confidence < HighConfidence
    /\ step.invoked = <<UiListener>>

\* C3: when a direction that is not the last emitted one is first resolved (it
\* is not the candidate carried over) with confidence at least 0.72 and the
\* re-emit gap is satisfied, the event is emitted on that same tick.
C3_HighConfidenceFastPath ==
    [][(/\ Resolved
        /\ FieldsBefore.candidateDirection # step'.signal[1].direction
        /\ step'.signal[1].confidence >= HighConfidence
        /\ step'.signal[1].direction # FieldsBefore.lastEmittedDirection
        /\ now - FieldsBefore.lastEmitAt >= NewDirectionGapMs)
          => /\ step'.event # Null
             /\ step'.event[1].direction = step'.signal[1].direction]_vars

\* C4: two successive events with no reset of the emission state between them
\* are at least 90 ms apart, and a tick that resolves the candidate carried over,
\* a direction other than the last emitted one, emits it exactly when
\* now - lastEmitAt >= 90 ms: on the first tick where the gap is satisfied.
C4_MinimumReemitGap ==
    [][/\ (step'.event # Null /\ prevEvent # Null)
            => step'.event[1].timestamp - prevEvent[1].timestamp >= NewDirectionGapMs
       /\ (/\ Resolved
           /\ FieldsBefore.candidateDirection = step'.signal[1].direction
           /\ FieldsBefore.candidateFrameCount >= 1
           /\ step'.signal[1].direction # FieldsBefore.lastEmittedDirection)
            => (step'.event # Null <=> now - FieldsBefore.lastEmitAt >= NewDirectionGapMs)]_vars

\* C4 happens: a new direction is confirmed less than 90 ms after the last
\* event, and the tick holds it back.
C4_Witness ==
    /\ step.branch = "wait"
    /\ prevEvent # Null
    /\ hmc.candidateDirection = step.signal[1].direction
    /\ hmc.candidateDirection # prevEvent[1].direction
    /\ hmc.candidateFrameCount >= 2
    /\ now - prevEvent[1].timestamp < NewDirectionGapMs

\* C5: a tick emits at most one event, and emits one only if the three
\* landmarks are present, a Baseline exists, the direction resolved equals the
\* candidate direction carried over from the preceding tick, that direction
\* differs from lastEmittedDirection and now - lastEmitAt is at least the
\* minimum gap; each listener is then called once, and in every other case no
\* listener is called.
C5_EmissionConditions ==
    [][/\ step'.event # Null
            => /\ HasAllLandmarks(step'.input[1])
               /\ FieldsBefore.baseline # Null
               /\ step'.signal # Null
               /\ step'.event[1].direction = step'.signal[1].direction
               /\ FieldsBefore.candidateDirection = step'.signal[1].direction
               /\ FieldsBefore.lastEmittedDirection # step'.signal[1].direction
               /\ now - FieldsBefore.lastEmitAt
                    >= minGapMs(step'.signal[1].direction, FieldsBefore.lastEmittedDirection)
               /\ step'.invoked = hmc.listeners
       /\ step'.event = Null => step'.invoked = <<>>]_vars

\* C5 happens: a tick emits a confirmed direction, and the listener is called
\* once with it.
C5_Witness ==
    /\ step.event # Null
    /\ step.invoked = <<UiListener>>
    /\ hmc.snapshot.lastDirection = step.event[1].direction
    /\ step.event[1].timestamp >= NewDirectionGapMs
    /\ step.event[1].direction = "down"

\* C6: a tick whose detector result is empty or lacks the nose or a shoulder
\* emits no event, reports tracking = false, clears smoothedDx/smoothedDy, the
\* candidate and lastEmittedDirection/lastEmitAt, and leaves the Baseline and
\* the calibrated flag as they were.
C6_LossHandling ==
    [][(/\ step'.op \in {"tick", "start"}
        /\ step'.input # Null
        /\ ~HasAllLandmarks(step'.input[1]))
          => /\ step'.event = Null
             /\ step'.invoked = <<>>
             /\ getSnapshot(hmc').tracking = FALSE
             /\ hmc'.smoothedDx = 0
             /\ hmc'.smoothedDy = 0
             /\ hmc'.candidateDirection = NoDirection
             /\ hmc'.candidateFrameCount = 0
             /\ hmc'.candidateConfidence = 0
             /\ hmc'.lastEmittedDirection = NoDirection
             /\ hmc'.lastEmitAt = 0
             /\ hmc'.baseline = FieldsBefore.baseline
             /\ getSnapshot(hmc').calibrated = getSnapshot(FieldsBefore).calibrated]_vars

\* C6 happens: a tick without landmarks on a calibrated controller that had
\* emitted a direction: the emission state is empty again, the Baseline stays.
C6_Witness ==
    /\ step.branch \in {"lost", "missing"}
    /\ hmc.baseline # Null
    /\ getSnapshot(hmc).calibrated
    /\ getSnapshot(hmc).lastDirection # NoDirection
    /\ hmc.lastEmittedDirection = NoDirection

\* C16: a tick that has the three landmarks while no Baseline exists reports
\* tracking = true and calibrated = false, leaves the smoothed signal, the
\* candidate and the emission state as they were, and emits no event.
C16_NoBaselineNoClassification ==
    [][(/\ step'.op \in {"tick", "start"}
        /\ step'.input # Null
        /\ HasAllLandmarks(step'.input[1])
        /\ FieldsBefore.baseline = Null)
          => /\ getSnapshot(hmc').tracking
             /\ ~getSnapshot(hmc').calibrated
             /\ hmc'.baseline = Null
             /\ hmc'.smoothedDx = FieldsBefore.smoothedDx
             /\ hmc'.smoothedDy = FieldsBefore.smoothedDy
             /\ hmc'.candidateDirection = FieldsBefore.candidateDirection
             /\ hmc'.candidateFrameCount = FieldsBefore.candidateFrameCount
             /\ hmc'.candidateConfidence = FieldsBefore.candidateConfidence
             /\ hmc'.lastEmittedDirection = FieldsBefore.lastEmittedDirection
             /\ hmc'.lastEmitAt = FieldsBefore.lastEmitAt
             /\ step'.signal = Null
             /\ step'.event = Null
             /\ step'.invoked = <<>>]_vars

\* C16 happens: a tick sees the head turned right while no Baseline exists,
\* and reports tracking without a candidate.
C16_Witness ==
    /\ step.op = "tick"
    /\ step.input = Some(RightMidPose)
    /\ step.branch = "uncalibrated"
    /\ hmc.baseline = Null
    /\ getSnapshot(hmc).tracking
    /\ ~getSnapshot(hmc).calibrated
    /\ hmc.candidateDirection = NoDirection

\* C19 as stated: when a candidate meets its frame count and gap but its
\* direction equals lastEmittedDirection, the tick emits no event and clears
\* the candidate (direction none, frame count 0, confidence 0).
C19_RepeatClearsCandidate ==
    [][step'.branch = "repeat"
         => (/\ step'.event = Null
             /\ hmc'.candidateDirection = NoDirection
             /\ hmc'.candidateFrameCount = 0
             /\ hmc'.candidateConfidence = 0)]_vars

\* C19, amended: when a candidate meets its frame count and gap but its
\* direction equals lastEmittedDirection, the tick emits no event and keeps
\* the candidate: the direction stays, the frame count is one more than
\* before, and the confidence is the greater of the candidate's and the
\* tick's.
C19_RepeatKeepsCandidate ==
    [][step'.branch = "repeat"
         => (/\ step'.event = Null
             /\ step'.signal[1].direction = FieldsBefore.lastEmittedDirection
             /\ hmc'.candidateDirection = FieldsBefore.candidateDirection
             /\ hmc'.candidateDirection = step'.signal[1].direction
             /\ hmc'.candidateFrameCount = FieldsBefore.candidateFrameCount + 1
             /\ hmc'.candidateConfidence =
                  Max(FieldsBefore.candidateConfidence, step'.signal[1].confidence)
             /\ hmc'.lastEmittedDirection = FieldsBefore.lastEmittedDirection
             /\ hmc'.lastEmitAt = FieldsBefore.lastEmitAt)]_vars

\* A held direction is suppressed on a second tick in a row: its candidate is
\* still there, counted further.
C19_Witness ==
    /\ step.branch = "repeat"
    /\ hmc.candidateDirection = hmc.lastEmittedDirection
    /\ hmc.candidateFrameCount >= 3
    /\ now - hmc.lastEmitAt >= SameDirectionGapMs

\* C20: a tick whose resolution is none clears the candidate and emits
\* nothing; a tick whose resolved direction differs from candidateDirection
\* sets the candidate to that direction with frame count 1 and that tick's
\* confidence and emits nothing; and in every reachable state
\* candidateDirection is none exactly when candidateFrameCount is 0, and then
\* candidateConfidence is 0.
C20_CandidateBookkeeping ==
    /\ [][/\ step'.branch = "none"
               => (/\ step'.signal = Null
                   /\ step'.event = Null
                   /\ hmc'.candidateDirection = NoDirection
                   /\ hmc'.candidateFrameCount = 0
                   /\ hmc'.candidateConfidence = 0)
          /\ (Resolved /\ step'.signal[1].direction # FieldsBefore.candidateDirection)
               => (/\ step'.branch = "candidate"
                   /\ step'.event = Null
                   /\ hmc'.candidateDirection = step'.signal[1].direction
                   /\ hmc'.candidateFrameCount = 1
                   /\ hmc'.candidateConfidence = step'.signal[1].confidence)]_vars
    /\ [](/\ (hmc.candidateDirection = NoDirection) <=> (hmc.candidateFrameCount = 0)
          /\ hmc.candidateFrameCount = 0 => hmc.candidateConfidence = 0)

\* A tick whose movement is too small to resolve clears the candidate after
\* an event was emitted.
C20_Witness ==
    /\ step.op = "tick"
    /\ step.branch = "none"
    /\ hmc.lastEmittedDirection # NoDirection
    /\ hmc.candidateDirection = NoDirection
    /\ hmc.candidateFrameCount = 0

\* C21: every emitted event carries a confidence in [0,1] that is the
\* greatest of the confidences resolved over the ticks of its candidate (the
\* tick that starts a candidate sets the candidate's confidence to its own,
\* every later tick of the candidate raises it to its own when that is
\* greater, and the event carries the result), the direction resolved on the
\* emitting tick and that tick's timestamp; the emission records that
\* direction and timestamp as lastEmittedDirection and lastEmitAt and clears
\* the candidate.
C21_EventContents ==
    [][/\ step'.branch = "candidate"
            => hmc'.candidateConfidence = step'.signal[1].confidence
       /\ step'.branch \in {"wait", "repeat"}
            => hmc'.candidateConfidence =
                 Max(FieldsBefore.candidateConfidence, step'.signal[1].confidence)
       /\ (~Resolved /\ hmc'.candidateDirection # NoDirection)
            => hmc'.candidateConfidence = hmc.candidateConfidence
       /\ step'.event # Null
            => (/\ step'.branch = "emit"
                /\ step'.event[1].confidence \in 0..1000
                /\ step'.event[1].confidence =
                     Max(FieldsBefore.candidateConfidence, step'.signal[1].confidence)
                /\ step'.event[1].direction = step'.signal[1].direction
                /\ step'.event[1].timestamp = now'
                /\ hmc'.lastEmittedDirection = step'.event[1].direction
                /\ hmc'.lastEmitAt = step'.event[1].timestamp
                /\ hmc'.candidateDirection = NoDirection
                /\ hmc'.candidateFrameCount = 0
                /\ hmc'.candidateConfidence = 0)]_vars

\* An event whose confidence is that of an earlier tick of its candidate,
\* greater than the emitting tick's.
C21_Witness ==
    /\ step.branch = "emit"
    /\ step.event # Null
    /\ step.event[1].confidence > step.signal[1].confidence
    /\ hmc.lastEmitAt = now
    /\ hmc.candidateDirection = NoDirection

---------------------------------------------------------------------------
(* The properties of stop(), under SpecLifecycle. *)

\* No registration of the tick callback is waiting for the next animation frame.
NoTickScheduled(queue) == \A i \in 1..Len(queue) : queue[i].cb # "loop"

\* C7: in every state after a stop() call has returned and before the next
\* start() call begins, the Baseline is absent and getSnapshot() reports
\* tracking = false and calibrated = false, whatever start() or calibrate()
\* call was in progress when stop() was called.
C7_BaselineLifetime ==
    stopped => /\ hmc.baseline = Null
               /\ ~getSnapshot(hmc).tracking
               /\ ~getSnapshot(hmc).calibrated

\* C8: stop() succeeds from any state; when it returns, running is false, no
\* tick is scheduled, the Baseline is absent, the candidate, emission and
\* smoothing state is cleared and the snapshot is {tracking = false, calibrated
\* = false, fps = 0}; a second stop() right after it succeeds too and leaves the
\* fields and the snapshot identical.
C8_StopIdempotent ==
    [][step'.op = "stop"
          => /\ step'.outcome = "returned"
             /\ ~hmc'.running
             /\ NoTickScheduled(rafQueue')
             /\ hmc'.baseline = Null
             /\ hmc' = ClearTransient(hmc')
             /\ ~getSnapshot(hmc').tracking
             /\ ~getSnapshot(hmc').calibrated
             /\ getSnapshot(hmc').fps = 0
             /\ step.op = "stop" => (hmc' = hmc /\ rafQueue' = rafQueue)]_vars

---------------------------------------------------------------------------
(* The properties of calibrate(), under SpecCalibrate. *)

\* Whether mean is the arithmetic mean of the values, to the nearest unit.
IsMeanOf(mean, values) ==
    /\ values # <<>>
    /\ 2 * Abs(Len(values) * mean - SumSeq(values)) <= Len(values)

\* C9: calibrate() succeeds exactly when at least 6 valid samples were
\* collected; it never holds more than 12; a detector result adds a sample only
\* if the nose and both shoulders are present and the shoulder width is at least
\* 1e-4, and then adds exactly its offsets and width; on success each Baseline
\* field is the arithmetic mean of that field over the samples collected.
C9_CalibrationResult ==
    [][step'.op = "calibrate"
          => /\ Len(cal'.samples) <= MaxSamples
             /\ step'.outcome = "calibrated" => Len(cal.samples) >= MinSamples
             /\ step'.outcome = "failed" => Len(cal.samples) < MinSamples
             /\ step'.outcome = "awaiting"
                  => LET lm == step'.input[1]
                         valid == HasAllLandmarks(lm) /\ ShoulderWidthOf(lm) >= MinShoulderWidth
                         before == IF cal.pc = "idle" THEN <<>> ELSE cal.samples
                     IN  /\ Len(before) < MaxSamples
                         /\ valid => cal'.samples =
                                        Append(before, [noseOffsetX |-> NoseOffsetX(lm),
                                                        noseOffsetY |-> NoseOffsetY(lm),
                                                        shoulderWidth |-> ShoulderWidthOf(lm)])
                         /\ ~valid => cal'.samples = before
             /\ step'.outcome = "calibrated"
                  => /\ hmc'.baseline # Null
                     /\ IsMeanOf(hmc'.baseline[1].noseOffsetX, FieldX(cal.samples))
                     /\ IsMeanOf(hmc'.baseline[1].noseOffsetY, FieldY(cal.samples))
                     /\ IsMeanOf(hmc'.baseline[1].shoulderWidth, FieldW(cal.samples))
                     /\ getSnapshot(hmc').calibrated]_vars

\* C9 happens: a calibration succeeds on samples of two different poses, fewer
\* than 12 of them, and the Baseline lies between the two.
C9_Witness ==
    /\ step.op = "calibrate"
    /\ step.outcome = "calibrated"
    /\ hmc.baseline # Null
    /\ hmc.baseline[1].noseOffsetX > NoseOffsetX(NeutralPose)
    /\ hmc.baseline[1].noseOffsetX < NoseOffsetX(SlouchPose)
    /\ hmc.baseline[1].noseOffsetY > NoseOffsetY(NeutralPose)
    /\ hmc.baseline[1].noseOffsetY < NoseOffsetY(SlouchPose)

\* C10: a calibrate() that fails for lack of valid samples writes nothing: the
\* Baseline of an earlier calibration, the calibrated flag, and the candidate,
\* emission and smoothing state are as they were before the failing step.
C10_FailedCalibrationWritesNothing ==
    [][(step'.op = "calibrate" /\ step'.outcome = "failed")
          => /\ hmc'.baseline = hmc.baseline
             /\ getSnapshot(hmc') = getSnapshot(hmc)
             /\ hmc'.candidateDirection = hmc.candidateDirection
             /\ hmc'.candidateFrameCount = hmc.candidateFrameCount
             /\ hmc'.candidateConfidence = hmc.candidateConfidence
             /\ hmc'.lastEmittedDirection = hmc.lastEmittedDirection
             /\ hmc'.lastEmitAt = hmc.lastEmitAt
             /\ hmc'.smoothedDx = hmc.smoothedDx
             /\ hmc'.smoothedDy = hmc.smoothedDy]_vars

\* C10 happens: a calibration fails on a controller that an earlier calibration
\* had given a Baseline, and the Baseline is still there.
C10_Witness ==
    /\ step.op = "calibrate"
    /\ step.outcome = "failed"
    /\ hmc.baseline # Null
    /\ getSnapshot(hmc).calibrated


\* C11, as stated: after any calibrate() call that fails for lack of valid
\* samples, the Baseline is unset and getSnapshot() reports calibrated = false.
C11_FailedCalibrationLeavesUnset ==
    [][(step'.op = "calibrate" /\ step'.outcome = "failed")
          => (hmc'.baseline = Null /\ ~getSnapshot(hmc').calibrated)]_vars

\* C11, amended: after a calibrate() call that fails for lack of valid samples,
\* the Baseline is unset and calibrated = false if no Baseline existed when the
\* call failed; a Baseline that an earlier calibration established is still set
\* and calibrated is still true.
C11_FailedCalibrationKeepsEarlier ==
    [][(step'.op = "calibrate" /\ step'.outcome = "failed")
          => /\ hmc.baseline = Null
                  => (hmc'.baseline = Null /\ ~getSnapshot(hmc').calibrated)
             /\ hmc.baseline # Null
                  => (hmc'.baseline # Null /\ getSnapshot(hmc').calibrated)]_vars

\* C11 happens: the first calibration of a started controller fails, and the
\* controller is tracking without a Baseline.
C11_Witness ==
    /\ step.op = "calibrate"
    /\ step.outcome = "failed"
    /\ hmc.running
    /\ hmc.baseline = Null
    /\ ~getSnapshot(hmc).calibrated


\* C12: the step in which calibrate() succeeds writes the Baseline and resets
\* candidateDirection, candidateFrameCount, candidateConfidence, smoothedDx,
\* smoothedDy, lastEmittedDirection and lastEmitAt, and the first tick after it
\* (the snapshot still says "Calibrated") emits no event and calls no listener.
C12_CalibrationResetsDebounce ==
    [][/\ (step'.op = "calibrate" /\ step'.outcome = "calibrated")
            => /\ hmc'.baseline # Null
               /\ hmc'.candidateDirection = NoDirection
               /\ hmc'.candidateFrameCount = 0
               /\ hmc'.candidateConfidence = 0
               /\ hmc'.smoothedDx = 0
               /\ hmc'.smoothedDy = 0
               /\ hmc'.lastEmittedDirection = NoDirection
               /\ hmc'.lastEmitAt = 0
       /\ (step'.op = "tick" /\ getSnapshot(hmc).debug = "Calibrated")
            => (step'.event = Null /\ step'.invoked = <<>>)]_vars

\* C12 happens: a calibration succeeds on a controller that had emitted a
\* direction with an earlier Baseline, and its debounce state is empty.
C12_Witness ==
    /\ step.op = "calibrate"
    /\ step.outcome = "calibrated"
    /\ getSnapshot(hmc).lastDirection # NoDirection
    /\ hmc.lastEmittedDirection = NoDirection
    /\ hmc.candidateDirection = NoDirection
    /\ hmc.smoothedDx = 0


---------------------------------------------------------------------------
(* The properties of calibrate() and start() under SpecLifecycle. *)

\* The controller is not started, as its caller sees it: start() never got to
\* the camera, or stop() has returned and start() was not called since, or the
\* last thing that happened is a start() that failed while no other start() was
\* in progress or had succeeded.
NotStartedYet ==
    \/ ~hmc.video
    \/ stopped
    \/ (step.op = "start" /\ step.outcome = "threw" /\ starts = NoStarts /\ ~hmc.running)

\* C13: calibrate() called when the controller is not started (before start(),
\* after stop(), after a failed start()) fails with the NotStarted error, reads
\* no detector result, registers no callback and changes no field.
C13_CalibrateNotStarted ==
    [][(step'.op = "calibrate" /\ dueQueue = <<>> /\ NotStartedYet)
          => /\ step'.outcome = "notStarted"
             /\ step'.input = Null
             /\ hmc' = hmc
             /\ cal' = cal
             /\ rafQueue' = rafQueue]_vars


---------------------------------------------------------------------------
(* The termination of calibrate(), under SpecLive. *)

\* C14: every calibrate() call on a started controller eventually completes,
\* with success or for lack of samples, also when stop() is called while it is
\* in progress; and it completes at the first frame at which 12 samples are
\* collected or 1.8 s have elapsed since it began, and at no earlier one.
C14_CalibrationTerminates ==
    /\ (cal.pc = "waiting") ~> (cal.pc = "idle")
    /\ [][(step'.op = "calibrate" /\ dueQueue # <<>>)
             => (step'.outcome \in {"calibrated", "failed"}
                   <=> (Len(cal.samples) >= MaxSamples
                          \/ now - cal.startedAt >= CalibrationBudgetMs))]_vars

\* C14 happens: a calibration completes although stop() was called while it
\* was in progress.
C14_Witness ==
    /\ step.op = "calibrate"
    /\ step.outcome \in {"calibrated", "failed"}
    /\ cal.pc = "idle"
    /\ stopped


---------------------------------------------------------------------------
(* The listeners, under SpecListeners. *)

\* C15: for every emitted event, each onDirection registration whose handle
\* was not called is invoked exactly once, within the emitting tick, in
\* registration order; a registration whose handle was called is not invoked;
\* and calling one handle removes no other registration.
C15_ListenersInRegistrationOrder ==
    [][/\ step'.event # Null => step'.invoked = handles
       /\ step'.event = Null => step'.invoked = <<>>]_vars

---------------------------------------------------------------------------
(* The game's turning rule, under SpecSnake.                                   *)

\* C17: the direction a game tick applies is never the exact opposite of the
\* direction the previous tick applied, whatever setDirection calls came
\* between the two ticks.
C17_NoReversal ==
    [][(step'.op = "snake.tick" /\ applied # Null /\ applied' # Null)
         => applied'[1] # Opposite(applied[1])]_vars

---------------------------------------------------------------------------
(* A failed start(), under SpecLifecycle. *)

\* C18: whenever a start() call fails, at whichever step (the secure-context
\* and getUserMedia check, the camera, the video playback, the pose model),
\* and no other start() call is running or has completed, the controller is
\* left not running, holding no camera stream, with no tick scheduled and no
\* Baseline.
C18_FailedStartLeavesNothing ==
    [][(step'.op = "start" /\ step'.outcome = "threw" /\ starts' = NoStarts /\ ~hmc.running)
         => (/\ ~hmc'.running
             /\ ~hmc'.stream
             /\ NoTickScheduled(rafQueue')
             /\ hmc'.baseline = Null)]_vars

---------------------------------------------------------------------------
(* Drift adaptation, under SpecDrift. *)

\* This step ran loop() on a calibrated controller.
TickedCalibrated == step'.op \in {"tick", "start"} /\ (Resolved \/ step'.branch = "none")

\* The threshold of the tick made in this step.
TickThreshold ==
    Threshold(ShoulderWidthOf(step'.input[1]), FieldsBefore.baseline[1].shoulderWidth)

\* C22: a tick changes the Baseline only when |smoothedDx| < 0.65 * threshold
\* and |smoothedDy| < 0.75 * threshold; a tick on which a direction is
\* resolved (a candidate is started or advanced, or an event is emitted)
\* leaves the Baseline unchanged; a tick on which no Baseline is used leaves
\* it unchanged as well; and the Baseline's shoulderWidth is strictly positive
\* in every state.
C22_DriftAdaptation ==
    /\ [][/\ (TickedCalibrated /\ hmc'.baseline # FieldsBefore.baseline)
               => (/\ Abs(hmc'.smoothedDx) * 100 < TickThreshold * 65
                   /\ Abs(hmc'.smoothedDy) * 100 < TickThreshold * 75)
          /\ Resolved => hmc'.baseline = FieldsBefore.baseline
          /\ step'.branch \in {"off", "lost", "missing", "uncalibrated"}
               => hmc'.baseline = FieldsBefore.baseline]_vars
    /\ [](hmc.baseline # Null => hmc.baseline[1].shoulderWidth > 0)

\* Adaptation has widened a Baseline taken at the narrow pose, and a later
\* tick resolved a direction.
C22_Witness ==
    /\ step.op = "tick"
    /\ step.branch \in {"candidate", "wait", "emit"}
    /\ hmc.baseline # Null
    /\ hmc.baseline[1].shoulderWidth > ShoulderWidthOf(NarrowPose)
    /\ hmc.baseline[1].shoulderWidth < ShoulderWidthOf(WidePose)

---------------------------------------------------------------------------
(* The calibrated flag, under SpecRestart. *)

\* C23: in every reachable state, under any interleaving of start(), stop(),
\* calibrate() and ticks, getSnapshot().calibrated is true exactly when a
\* Baseline is present; and no event is emitted while getSnapshot() reports
\* calibrated = false.
C23_CalibratedIffBaseline ==
    /\ [](getSnapshot(hmc).calibrated <=> (hmc.baseline # Null))
    /\ [][step'.event # Null => getSnapshot(hmc').calibrated]_vars

---------------------------------------------------------------------------
(* The tick chain, under SpecLifecycle. *)

\* The registrations of the tick callback that wait for an animation frame or
\* are due in the frame being run.
TicksScheduled == Len(SelectSeq(rafQueue \o dueQueue, LAMBDA entry : entry.cb = "loop"))

\* C24: at most one tick of the classifier loop is scheduled at any time, for
\* any interleaving of start() and stop() calls, a second start() issued
\* before the first has completed included; and stop() leaves no tick
\* scheduled.
C24_SingleTickChain ==
    /\ [](TicksScheduled <= 1)
    /\ [][step'.op = "stop" => NoTickScheduled(rafQueue')]_vars

---------------------------------------------------------------------------
(* The life of the tick loop, under SpecTicks. *)

\* The registrations of the tick callback in a queue.
LoopsIn(queue) == Len(SelectSeq(queue, LAMBDA entry : entry.cb = "loop"))

\* This step ran loop() past its running check.
Processed ==
    step'.branch \in {"lost", "missing", "uncalibrated", "none", "candidate", "repeat",
                      "emit", "wait"}

---------------------------------------------------------------------------
(* The board, under SpecBoard. *)

InsideGrid(g, cell) == cell.x \in 0..(g.cols - 1) /\ cell.y \in 0..(g.rows - 1)

\* C26: in every reachable state of SnakeGame all snake cells lie inside the
\* cols x rows grid and are pairwise distinct, the food cell is not occupied
\* by the snake, the score equals the snake length minus 3, and at most one
\* interval ticker is active, which is active only while the game is running.
C26_BoardWellFormed ==
    /\ \A i \in 1..Len(game.snake) : InsideGrid(game, game.snake[i])
    /\ \A i, j \in 1..Len(game.snake) : game.snake[i] = game.snake[j] => i = j
    /\ ~Occupies(game.snake, game.food)
    /\ game.score = Len(game.snake) - 3
    /\ Cardinality(game.intervals) <= 1
    /\ game.intervals # {} => game.running
    /\ game.tickId # Null => game.intervals = {game.tickId[1]}

\* On the smallest grid, with wrap-around on, a snake that has eaten has
\* passed the right wall and goes on from the left column.
C26_Witness ==
    /\ step.op = "snake.tick"
    /\ game.cols = 12
    /\ game.wrapAround
    /\ game.running
    /\ game.score >= 1
    /\ game.snake[1].x = 0
    /\ game.snake[2].x = 11

====
